---- MODULE Spec2Model ----
(***************************************************************************)
(* Kanban Status Updater (src/main.ts): a board document lists cards under *)
(* "## " headings; syncBoard writes each linked note's frontmatter status  *)
(* (and urgent/important for quadrant columns) and moves the note between  *)
(* a tasks folder and its archive sub-folder.                              *)
(*                                                                         *)
(* JavaScript values are written as strings: "null", "true", "false",      *)
(* "undefined".  A path is the sequence of its "/"-separated segments; the *)
(* vault root is the empty sequence.  Characters outside ASCII are written *)
(* by their code points ("U+1F534 Do First (I & U)").                      *)
(*                                                                         *)
(* files is the set of documents the vault holds.  No document is created, *)
(* so the create event comes only from createFolder.  Settings, logging    *)
(* and notices change nothing the plugin reads back and are left out.      *)
(*                                                                         *)
(* Spec lets board edits arrive at any time, also while calls of syncBoard *)
(* are in flight.  SpecVault draws the board's text, the note's            *)
(* frontmatter and its folder from wider sets and lets the vault's events  *)
(* (save, frontmatter edit, delete) arrive only when no call is in flight. *)
(***************************************************************************)
EXTENDS Naturals, Sequences, FiniteSets

VARIABLES isUpdating, boardPaths, content, fm, loc, folders, inv, files

vars == <<isUpdating, boardPaths, content, fm, loc, folders, inv, files>>

\* ------------------------------------------------------------------ bounds

\* syncBoard invocations that may be in flight at once.
MaxInv == 2

Procs == 1..MaxInv

\* ------------------------------------------------------------- JS values

NULL == "null"
TRUE_ == "true"
FALSE_ == "false"
UNDEFINED == "undefined"

\* -------------------------------------------------------------- the vault

Board == "K"
TaskA == "Task A"
Docs == {Board, TaskA}

\* A link text that resolves to no document.
Ghost == "Missing"
LinkTargets == Docs \cup {Ghost}

Root == << >>
ItemFolders ==
    { <<"tasks">>, <<"tasks", "archive">>,
      <<"p", "tasks">>, <<"p", "tasks", "archive">>,
      <<"notes", "archive">> }

\* ------------------------------------------------------------ column names

\* README, Column Mapping: the documented quadrant headings.
DocEliminate == "U+26AA Eliminate (NI & NU)"
DocDelegate == "U+1F7E0 Delegate (NI & U)"
DocSchedule == "U+1F7E1 Schedule (I & NU)"
DocDoFirst == "U+1F534 Do First (I & U)"

\* main.ts, the keys of QUADRANT_MAP as the file spells them.
KeyEliminate == "U+00E2 U+0161 U+00AA Eliminate (NI & NU)"
KeyDelegate == "U+00F0 U+0178 U+0178 U+00A0 Delegate (NI & U)"
KeySchedule == "U+00F0 U+0178 U+0178 U+00A1 Schedule (I & NU)"
KeyDoFirst == "U+00F0 U+0178 U+201D U+00B4 Do First (I & U)"

QUADRANT_MAP ==
    [c \in {KeyEliminate, KeyDelegate, KeySchedule, KeyDoFirst} |->
        CASE c = KeyEliminate -> [urgent |-> FALSE_, important |-> FALSE_]
          [] c = KeyDelegate  -> [urgent |-> TRUE_,  important |-> FALSE_]
          [] c = KeySchedule  -> [urgent |-> FALSE_, important |-> TRUE_]
          [] c = KeyDoFirst   -> [urgent |-> TRUE_,  important |-> TRUE_]]

ARCHIVE_STATUSES == {"done", "archive"}

\* Property names every object literal inherits: `name in QUADRANT_MAP` is
\* true of them too, and QUADRANT_MAP[name].urgent is undefined.
ObjectPrototypeKeys == {"constructor", "toString", "valueOf", "hasOwnProperty"}

\* columnName in QUADRANT_MAP
isQuadrant(columnName) ==
    columnName \in DOMAIN QUADRANT_MAP \/ columnName \in ObjectPrototypeKeys

\* QUADRANT_MAP[columnName], for a name `in` the map
QuadrantEntry(columnName) ==
    IF columnName \in DOMAIN QUADRANT_MAP
    THEN QUADRANT_MAP[columnName]
    ELSE [urgent |-> UNDEFINED, important |-> UNDEFINED]

\* const status = isQuadrant ? 'backlog' : columnName
status(columnName) == IF isQuadrant(columnName) THEN "backlog" ELSE columnName

\* ------------------------------------------------------------ board text

\* A line of board text, by what the two patterns of parseBoardContent find
\* in it: heading is the group of /^## (.+)$/ and link is the group of the
\* first /\[\[([^\]]+)\]\]/, each NoMatch when the pattern does not match.
NoMatch == "<no match>"
Heading(text) == [heading |-> text, link |-> NoMatch]
Card(target) == [heading |-> NoMatch, link |-> target]
Blank == [heading |-> NoMatch, link |-> NoMatch]

\* String.prototype.trim on the heading texts the model uses.
trim(s) ==
    CASE s = " " -> ""
      [] s = "done " -> "done"
      [] OTHER -> s

\* A parser without the test of currentColumn.
AnyColumn(s) == TRUE

\* if (currentColumn): null and the empty string are falsy.
Truthy(s) == s # NULL /\ s # ""

RECURSIVE ParseFrom(_, _, _, _)
ParseFrom(lines, k, currentColumn, updates) ==
    IF k > Len(lines) THEN updates
    ELSE IF lines[k].heading # NoMatch
         THEN ParseFrom(lines, k + 1, trim(lines[k].heading), updates)
    ELSE IF Truthy(currentColumn) /\ lines[k].link # NoMatch
         THEN ParseFrom(lines, k + 1, currentColumn,
                  Append(updates, [linkPath |-> lines[k].link,
                                   columnName |-> currentColumn]))
    ELSE ParseFrom(lines, k + 1, currentColumn, updates)

parseBoardContent(lines) == ParseFrom(lines, 1, NULL, << >>)

\* The board texts an edit may leave in the board document: no card, one
\* card, two cards (of one note under two columns, of two notes, after a link
\* that resolves to nothing), and lines the parser passes over.
Section(c, l) == <<Heading(c), Card(l)>>
OneCard ==
    { Section(DocDoFirst, TaskA),
      Section("in-progress", TaskA), Section("done", TaskA),
      Section("in-progress", Board) }
TwoCards ==
    { Section("in-progress", TaskA) \o Section("done", TaskA),
      Section("done", Ghost) \o Section("done", TaskA) }
SpecialTexts == { <<Card(TaskA)>> }
BoardTexts == {<< >>} \cup OneCard \cup TwoCards \cup SpecialTexts

\* The text of a note that is not a board is not modelled: it has no heading.
Texts(f) == IF f = Board THEN BoardTexts ELSE {<< >>}

\* ------------------------------------------------------------------ paths

\* s.endsWith("/" + suffix): the suffix segments, and a segment before them.
EndsWithSlash(path, suffix) ==
    /\ Len(path) > Len(suffix)
    /\ SubSeq(path, Len(path) - Len(suffix) + 1, Len(path)) = suffix

\* archiveNote's guard: parentDir.endsWith('/tasks') || parentDir === 'tasks'
InTasksFolder(parentDir) ==
    EndsWithSlash(parentDir, <<"tasks">>) \/ parentDir = <<"tasks">>

\* A guard that forgets the tasks segment: parentDir.endsWith('/archive')
InAnyArchiveFolder(parentDir) == EndsWithSlash(parentDir, <<"archive">>)

\* unarchiveNote's guard: parentDir.endsWith('/tasks/archive')
InArchiveFolder(parentDir) == EndsWithSlash(parentDir, <<"tasks", "archive">>)

\* parentDir.replace(/\/archive$/, '')
StripArchive(parentDir) ==
    IF EndsWithSlash(parentDir, <<"archive">>)
    THEN SubSeq(parentDir, 1, Len(parentDir) - 1)
    ELSE parentDir

\* file.path
Path(f, where) == <<where[f], f>>

Prefixes(path) == {SubSeq(path, 1, n) : n \in 1..Len(path)}

\* ------------------------------------------------------------ the updates

\* metadataCache.getFirstLinkpathDest(notePath, ''): notes are linked by name.
getFirstLinkpathDest(notePath) == IF notePath \in files THEN notePath ELSE NULL

\* let needsUpdate = oldStatus !== status; if (isQuadrant) needsUpdate ||= ...
needsUpdate(columnName, meta) ==
    \/ meta.status # status(columnName)
    \/ /\ isQuadrant(columnName)
       /\ \/ meta.urgent # QuadrantEntry(columnName).urgent
          \/ meta.important # QuadrantEntry(columnName).important

\* A frontmatter value as the metadata cache gives it back: an undefined
\* property is not written, and a missing one reads as null (?? null).
Stored(v) == IF v = UNDEFINED THEN NULL ELSE v

\* the callback of processFrontMatter
processFrontMatter(meta, columnName) ==
    IF isQuadrant(columnName)
    THEN [meta EXCEPT !.status = status(columnName),
                      !.urgent = Stored(QuadrantEntry(columnName).urgent),
                      !.important = Stored(QuadrantEntry(columnName).important)]
    ELSE [meta EXCEPT !.status = status(columnName)]

\* An index of every document, board or not.
indexAll(meta, where) == {Path(f, where) : f \in files}

\* indexBoards: the paths of the documents with a truthy kanban-plugin.
indexBoards(meta, where) == {Path(f, where) : f \in {d \in files : meta[d].kanban}}

\* updateNote up to its first await: does the pair call processFrontMatter?
CallsWrite(u, meta) ==
    /\ getFirstLinkpathDest(u.linkPath) # NULL
    /\ needsUpdate(u.columnName, meta[getFirstLinkpathDest(u.linkPath)])

\* The first pair from i on whose updateNote awaits; Len + 1 when none does.
RECURSIVE NextWrite(_, _, _)
NextWrite(updates, i, meta) ==
    IF i > Len(updates) THEN i
    ELSE IF CallsWrite(updates[i], meta) THEN i
    ELSE NextWrite(updates, i + 1, meta)

\* ------------------------------------------------------- syncBoard calls

\* One call of syncBoard, between its awaits.  pc is the await it is parked
\* at: "read" (cachedRead), "write" (processFrontMatter), "mkdir"
\* (createFolder), "move" (renameFile); "done" right after it returned and
\* "idle" from the next step on.  updates[i] is the pair being updated.
\* The other fields record the call's history and guide nothing:
\*   solo    no other call was in flight at any time during this one
\*   err     the awaits that threw into updateNote's catch: "write" for
\*           processFrontMatter, "place" for createFolder and renameFile
\*   rerun   the call started right after a solo call on the same board with
\*           the same pairs returned; prevErr is that call's err
\*   found   how the read found Task A: "new" (in tasks, no status or flag),
\*           "first" (in tasks, backlog, urgent and important), "" otherwise
IdleInv ==
    [pc |-> "idle", file |-> NULL, updates |-> << >>, i |-> 0, dest |-> Root,
     solo |-> FALSE, err |-> {}, rerun |-> FALSE, prevErr |-> {}, found |-> ""]

Found(meta, where) ==
    IF where[TaskA] # <<"tasks">> THEN ""
    ELSE IF /\ meta[TaskA].status = NULL /\ meta[TaskA].urgent = NULL
            /\ meta[TaskA].important = NULL THEN "new"
    ELSE IF /\ meta[TaskA].status = "backlog" /\ meta[TaskA].urgent = TRUE_
            /\ meta[TaskA].important = TRUE_ THEN "first"
    ELSE ""

InFlight(r) == r.pc \in {"read", "write", "mkdir", "move"}
InUpdate(r) == r.pc \in {"write", "mkdir", "move"}

\* The calls as the next step finds them: one that returned is gone.
Retired == [q \in Procs |-> IF inv[q].pc = "done" THEN IdleInv ELSE inv[q]]

Least(S) == CHOOSE q \in S : \A r \in S : q <= r

\* syncBoard(file) up to its first await, in slot q of calls
Launch(calls, q, f, rerun, prevErr) ==
    [r \in Procs |->
        IF r = q
        THEN [IdleInv EXCEPT !.pc = "read", !.file = f,
                             !.solo = \A x \in Procs \ {q} : ~InFlight(calls[x]),
                             !.rerun = rerun, !.prevErr = prevErr]
        ELSE IF InFlight(calls[r]) \/ calls[r].pc = "done"
             THEN [calls[r] EXCEPT !.solo = FALSE]
             ELSE calls[r]]

\* The loop of syncBoard from pair i on, up to the next await or the return.
After(r, i, meta) ==
    LET j == NextWrite(r.updates, i, meta)
    IN  [r EXCEPT !.i = j, !.dest = Root,
                  !.pc = IF j > Len(r.updates) THEN "done" ELSE "write"]

\* archiveNote up to its first await
archiveNote(parentDir, existing) ==
    IF ~InTasksFolder(parentDir) THEN [pc |-> "next", dest |-> Root]
    ELSE IF (parentDir \o <<"archive">>) \notin existing
         THEN [pc |-> "mkdir", dest |-> parentDir \o <<"archive">>]
         ELSE [pc |-> "move", dest |-> parentDir \o <<"archive">>]

\* unarchiveNote up to its await
unarchiveNote(parentDir) ==
    IF ~InArchiveFolder(parentDir) THEN [pc |-> "next", dest |-> Root]
    ELSE [pc |-> "move", dest |-> StripArchive(parentDir)]

\* A guard that does not look at isUpdating.
AcceptsBoard(f) == Path(f, loc) \in boardPaths

\* The modify handler's guard (every document is a TFile).
Accepts(f) == ~isUpdating /\ Path(f, loc) \in boardPaths

\* ------------------------------------------------------------------- Init

InitMeta ==
    [status : {NULL, "done"}, urgent : {NULL},
     important : {NULL}, kanban : {FALSE}]

Init ==
    /\ isUpdating = FALSE
    /\ content = [f \in Docs |-> << >>]
    /\ fm \in {m \in [Docs -> InitMeta \cup
                        {[status |-> NULL, urgent |-> NULL, important |-> NULL,
                          kanban |-> TRUE]}] :
                 m[Board].kanban /\ m[Board].urgent = NULL
                 /\ m[Board].status = NULL /\ ~m[TaskA].kanban}
    /\ loc \in {l \in [Docs -> ItemFolders \cup {Root}] :
                 l[Board] = Root /\ l[TaskA] # Root}
    /\ folders = Prefixes(loc[TaskA])
    /\ files = Docs
    /\ boardPaths = indexBoards(fm, loc)
    /\ inv = [q \in Procs |-> IdleInv]

\* ---------------------------------------------------------------- actions

\* An edit of document f leaves text t in it; the vault emits modify.
Edit(f, t) ==
    LET prev == {q \in Procs : /\ inv[q].pc = "done" /\ inv[q].solo
                               /\ inv[q].file = f
                               /\ inv[q].updates = parseBoardContent(t)}
        free == {q \in Procs : ~InFlight(inv[q])}
    IN  /\ f \in files
        /\ t \in Texts(f)
        /\ content' = [content EXCEPT ![f] = t]
        /\ IF Accepts(f)
           THEN /\ free # {}
                /\ inv' = Launch(Retired, Least(free), f,
                                 prev # {} /\ \A x \in Procs : ~InFlight(inv[x]),
                                 UNION {inv[q].err : q \in prev})
           ELSE inv' = Retired
        /\ UNCHANGED <<isUpdating, boardPaths, fm, loc, folders, files>>

\* A syncBoard that sets isUpdating before it looks at the number of pairs:
\* with none it returns and the flag stays set.
ReadSetsFlag(p) ==
    /\ inv[p].pc = "read"
    /\ LET ups == parseBoardContent(content[inv[p].file])
           r1 == [inv[p] EXCEPT !.updates = ups,
                                !.found = Found(fm, loc)]
           r2 == IF ups = << >> THEN [r1 EXCEPT !.pc = "done"]
                 ELSE After(r1, 1, fm)
       IN  /\ inv' = [Retired EXCEPT ![p] = r2]
           /\ isUpdating' = IF ups = << >> THEN TRUE ELSE r2.pc # "done"
    /\ UNCHANGED <<boardPaths, content, fm, loc, folders, files>>

\* cachedRead resolves: parse, and run the loop up to its first await.
Read(p) ==
    /\ inv[p].pc = "read"
    /\ LET ups == parseBoardContent(content[inv[p].file])
           r1 == [inv[p] EXCEPT !.updates = ups,
                                !.found = Found(fm, loc)]
           r2 == IF ups = << >> THEN [r1 EXCEPT !.pc = "done"]
                 ELSE After(r1, 1, fm)
       IN  /\ inv' = [Retired EXCEPT ![p] = r2]
           /\ isUpdating' = IF ups = << >> THEN isUpdating ELSE r2.pc # "done"
    /\ UNCHANGED <<boardPaths, content, fm, loc, folders, files>>

\* processFrontMatter resolves: the note is written (the vault emits modify
\* for it), then the placement runs up to its await, or the loop goes on.
WriteDone(p) ==
    /\ inv[p].pc = "write"
    /\ LET r == inv[p]
           u == r.updates[r.i]
           g == getFirstLinkpathDest(u.linkPath)
           place == IF status(u.columnName) \in ARCHIVE_STATUSES
                    THEN archiveNote(loc[g], folders)
                    ELSE unarchiveNote(loc[g])
           meta == [fm EXCEPT ![g] = processFrontMatter(fm[g], u.columnName)]
           r2 == IF place.pc = "next" THEN After(r, r.i + 1, meta)
                 ELSE [r EXCEPT !.pc = place.pc, !.dest = place.dest]
           calls == [Retired EXCEPT ![p] = r2]
           free == {q \in Procs \ {p} : ~InFlight(inv[q])}
       IN  /\ fm' = meta
           /\ IF Accepts(g)
              THEN /\ free # {}
                   /\ inv' = Launch(calls, Least(free), g, FALSE, {})
              ELSE inv' = calls
           /\ isUpdating' = IF r2.pc = "done" THEN FALSE ELSE isUpdating
    /\ UNCHANGED <<boardPaths, content, loc, folders, files>>

\* updateNote without its try/catch: the throw leaves syncBoard at once, and
\* the line that clears isUpdating is not reached.
Uncaught(p, what) ==
    /\ inv' = [Retired EXCEPT ![p] = [inv[p] EXCEPT !.err = @ \cup {what},
                                                   !.pc = "done"]]
    /\ isUpdating' = isUpdating

\* An await of updateNote throws: the catch logs, and the loop goes on.
Caught(p, what) ==
    LET r2 == After([inv[p] EXCEPT !.err = @ \cup {what}], inv[p].i + 1, fm)
    IN  /\ inv' = [Retired EXCEPT ![p] = r2]
        /\ isUpdating' = IF r2.pc = "done" THEN FALSE ELSE isUpdating

\* An updateNote whose try/catch is around processFrontMatter alone: the
\* write throws, and the placement runs all the same.
WriteFailPlaces(p) ==
    /\ inv[p].pc = "write"
    /\ LET r == [inv[p] EXCEPT !.err = @ \cup {"write"}]
           u == r.updates[r.i]
           g == getFirstLinkpathDest(u.linkPath)
           place == IF status(u.columnName) \in ARCHIVE_STATUSES
                    THEN archiveNote(loc[g], folders)
                    ELSE unarchiveNote(loc[g])
           r2 == IF place.pc = "next" THEN After(r, r.i + 1, fm)
                 ELSE [r EXCEPT !.pc = place.pc, !.dest = place.dest]
       IN  /\ inv' = [Retired EXCEPT ![p] = r2]
           /\ isUpdating' = IF r2.pc = "done" THEN FALSE ELSE isUpdating
    /\ UNCHANGED <<boardPaths, content, fm, loc, folders, files>>

WriteFail(p) ==
    /\ inv[p].pc = "write"
    /\ Caught(p, "write")
    /\ UNCHANGED <<boardPaths, content, fm, loc, folders, files>>

\* createFolder resolves (the vault emits create: indexBoards); renameFile
\* is called.
MkdirDone(p) ==
    /\ inv[p].pc = "mkdir"
    /\ inv[p].dest \notin folders
    /\ folders' = folders \cup {inv[p].dest}
    /\ boardPaths' = indexBoards(fm, loc)
    /\ inv' = [Retired EXCEPT ![p] = [inv[p] EXCEPT !.pc = "move"]]
    /\ UNCHANGED <<isUpdating, content, fm, loc, files>>

MkdirFail(p) ==
    /\ inv[p].pc = "mkdir"
    /\ Caught(p, "place")
    /\ UNCHANGED <<boardPaths, content, fm, loc, folders, files>>

\* renameFile resolves (the vault emits rename: indexBoards); the loop goes on.
MoveDone(p) ==
    /\ inv[p].pc = "move"
    /\ LET r == inv[p]
           g == getFirstLinkpathDest(r.updates[r.i].linkPath)
           r2 == After(r, r.i + 1, fm)
       IN  /\ r.dest \in folders
           /\ loc[g] # r.dest
           /\ loc' = [loc EXCEPT ![g] = r.dest]
           /\ boardPaths' = indexBoards(fm, loc')
           /\ inv' = [Retired EXCEPT ![p] = r2]
           /\ isUpdating' = IF r2.pc = "done" THEN FALSE ELSE isUpdating
    /\ UNCHANGED <<content, fm, folders, files>>

\* renameFile throws and the write before it is undone: a transactional
\* updateNote, which main.ts is not.
MoveFailUndoes(p) ==
    /\ inv[p].pc = "move"
    /\ Caught(p, "place")
    /\ fm' = [fm EXCEPT
                ![getFirstLinkpathDest(inv[p].updates[inv[p].i].linkPath)].status
                    = NULL]
    /\ UNCHANGED <<boardPaths, content, loc, folders, files>>

MoveFail(p) ==
    /\ inv[p].pc = "move"
    /\ Caught(p, "place")
    /\ UNCHANGED <<boardPaths, content, fm, loc, folders, files>>

Next ==
    \/ \E f \in Docs : \E t \in BoardTexts : Edit(f, t)
    \/ \E p \in Procs : Read(p)
    \/ \E p \in Procs : WriteDone(p)
    \/ \E p \in Procs : WriteFail(p)
    \/ \E p \in Procs : MkdirDone(p)
    \/ \E p \in Procs : MkdirFail(p)
    \/ \E p \in Procs : MoveDone(p)
    \/ \E p \in Procs : MoveFail(p)

Spec == Init /\ [][Next]_vars

\* Call p's pending await settles: it resolves or it throws.
Settle(p) ==
    \/ Read(p)
    \/ WriteDone(p) \/ WriteFail(p)
    \/ MkdirDone(p) \/ MkdirFail(p)
    \/ MoveDone(p) \/ MoveFail(p)

\* The vault with a new note: Task A in tasks, no status, no archive folder.
InitNew ==
    /\ Init
    /\ loc[TaskA] = <<"tasks">>
    /\ fm[TaskA].status = NULL

\* The edits of FairSpec: the card of Task A under one column, the other, or
\* both, or a card of the board itself.
FairTexts ==
    { Section("in-progress", TaskA), Section("done", TaskA),
      Section("in-progress", TaskA) \o Section("done", TaskA),
      Section("in-progress", Board) }

NextFair ==
    \/ \E f \in Docs : \E t \in FairTexts : Edit(f, t)
    \/ \E p \in Procs : Settle(p)

\* Board edits at any time, and every await of every call settles in the end.
FairSpec ==
    InitNew /\ [][NextFair]_vars /\ \A p \in Procs : WF_vars(Settle(p))

\* ------------------------------------------------- the vault, one event
\* ------------------------------------------------- at a time

\* The board texts of SpecVault.  Line by line, up to MaxLines lines, for
\* what the parser does with them: a heading, a heading of blanks only, a
\* card, a heading that holds a link, a line with neither.
MaxLines == 3
LineKinds ==
    { Heading("in-progress"), Heading(" "), Card(TaskA),
      [heading |-> "done", link |-> TaskA], Blank }
LineTexts == UNION {[1..n -> LineKinds] : n \in 0..MaxLines}

\* Card by card, up to MaxCards cards each under its own heading, for what
\* the updates do: the headings are a plain one, an archival one with a
\* trailing blank, the README's Do First, main.ts's Do First key, and a name
\* every object inherits.
MaxCards == 2
Columns == {"in-progress", "done ", DocDoFirst, KeyDoFirst, "constructor"}
Sections == {Section(c, l) : c \in Columns, l \in Docs}
RECURSIVE Flatten(_)
Flatten(ss) == IF ss = << >> THEN << >> ELSE Head(ss) \o Flatten(Tail(ss))
CardTexts == {Flatten(ss) : ss \in UNION {[1..n -> Sections] : n \in 0..MaxCards}}

VaultTexts == LineTexts \cup CardTexts

\* The frontmatter a note may have before any sync.
VaultMeta ==
    { [status |-> NULL, urgent |-> NULL, important |-> NULL, kanban |-> FALSE],
      [status |-> "done", urgent |-> NULL, important |-> NULL, kanban |-> FALSE],
      [status |-> "backlog", urgent |-> TRUE_, important |-> TRUE_,
       kanban |-> FALSE] }

InitVault ==
    /\ isUpdating = FALSE
    /\ content \in {c \in [Docs -> VaultTexts] : c[TaskA] = << >>}
    /\ fm \in {m \in [Docs -> VaultMeta \cup
                        {[status |-> NULL, urgent |-> NULL, important |-> NULL,
                          kanban |-> TRUE]}] :
                 m[Board].kanban /\ ~m[TaskA].kanban}
    /\ loc \in {l \in [Docs -> ItemFolders \cup {Root}] :
                 l[Board] = Root /\ l[TaskA] # Root}
    /\ folders = Prefixes(loc[TaskA])
    /\ files = Docs
    /\ boardPaths = indexBoards(fm, loc)
    /\ inv = [q \in Procs |-> IdleInv]

\* No call of syncBoard is between its start and its return.
Quiet == \A p \in Procs : ~InFlight(inv[p])

\* The modify handler for document f, the calls being as `calls` has them.
Modified(f, calls) ==
    LET prev == {q \in Procs : /\ inv[q].pc = "done" /\ inv[q].solo
                               /\ inv[q].file = f
                               /\ inv[q].updates = parseBoardContent(content[f])}
        free == {q \in Procs : ~InFlight(inv[q])}
    IN  IF Accepts(f)
        THEN /\ free # {}
             /\ inv' = Launch(calls, Least(free), f,
                              prev # {} /\ \A x \in Procs : ~InFlight(inv[x]),
                              UNION {inv[q].err : q \in prev})
        ELSE inv' = calls

\* Document f is saved with its text as it was; the vault emits modify.
Save(f) ==
    /\ f \in files
    /\ Modified(f, Retired)
    /\ UNCHANGED <<isUpdating, boardPaths, content, fm, loc, folders, files>>

\* An edit of document f's frontmatter adds or removes kanban-plugin; the
\* vault emits modify, and the index is as it was.
Retag(f) ==
    /\ f \in files
    /\ fm' = [fm EXCEPT ![f].kanban = ~@]
    /\ Modified(f, Retired)
    /\ UNCHANGED <<isUpdating, boardPaths, content, loc, folders, files>>

\* Document f is deleted; the vault emits delete: boardPaths.delete(file.path)
Delete(f) ==
    /\ f \in files
    /\ files' = files \ {f}
    /\ boardPaths' = boardPaths \ {Path(f, loc)}
    /\ inv' = Retired
    /\ UNCHANGED <<isUpdating, content, fm, loc, folders>>

NextVault ==
    \/ Quiet /\ \E f \in Docs : Save(f)
    \/ Quiet /\ \E f \in Docs : Retag(f)
    \/ Quiet /\ \E f \in Docs : Delete(f)
    \/ \E p \in Procs : Read(p)
    \/ \E p \in Procs : WriteDone(p)
    \/ \E p \in Procs : WriteFail(p)
    \/ \E p \in Procs : MkdirDone(p)
    \/ \E p \in Procs : MkdirFail(p)
    \/ \E p \in Procs : MoveDone(p)
    \/ \E p \in Procs : MoveFail(p)

SpecVault == InitVault /\ [][NextVault]_vars

\* ================================================================ claims

\* What the claims mean by their words, written from the README and the
\* specification, not from the code.

\* README, Column Mapping: the four quadrant columns and their flags.
QuadrantColumns == {DocEliminate, DocDelegate, DocSchedule, DocDoFirst}
ReadmeUrgent(c) == IF c \in {DocDelegate, DocDoFirst} THEN TRUE_ ELSE FALSE_
ReadmeImportant(c) == IF c \in {DocSchedule, DocDoFirst} THEN TRUE_ ELSE FALSE_

\* The target state of column c for a note whose frontmatter is meta.
Target(meta, c) ==
    IF c \in QuadrantColumns
    THEN [meta EXCEPT !.status = "backlog", !.urgent = ReadmeUrgent(c),
                      !.important = ReadmeImportant(c)]
    ELSE [meta EXCEPT !.status = c]

Archival == {"done", "archive"}

\* An active location is `tasks` or a path ending in `/tasks`; its archive
\* sub-location is that folder plus `archive`.
ActiveLocation(d) == Len(d) >= 1 /\ d[Len(d)] = "tasks"
ArchiveLocation(d) ==
    Len(d) >= 2 /\ d[Len(d)] = "archive" /\ d[Len(d) - 1] = "tasks"
Parent(d) == SubSeq(d, 1, Len(d) - 1)

\* The columns of `updates` that link document g.
ColumnsOf(updates, g) ==
    {updates[k].columnName : k \in {n \in 1..Len(updates) : updates[n].linkPath = g}}

Pair(c, l) == [linkPath |-> l, columnName |-> c]

\* The pair a call is updating, and the document it resolves to.
Current(r) == r.updates[r.i]
CurrentDoc(r) == getFirstLinkpathDest(Current(r).linkPath)

\* C9: at most one syncBoard call is inside its loop, and no two updateNote
\* calls are in flight at once.
C9_OneBoardAtATime == Cardinality({p \in Procs : InUpdate(inv[p])}) <= 1

\* C10: while some syncBoard call is between its first pair and the end of
\* its last, isUpdating is true.
C10_FlagCoversSync == (\E p \in Procs : InUpdate(inv[p])) => isUpdating

\* C1: a syncBoard call that starts right after a call on the same board
\* with the same pairs returned, with no throw in that call and no other
\* call in flight during either, calls neither processFrontMatter nor
\* renameFile: it never parks at an await of updateNote.
C1_Idempotent ==
    \A p \in Procs :
        (inv[p].rerun /\ inv[p].solo /\ inv[p].prevErr = {}) => ~InUpdate(inv[p])

\* C2: right after a syncBoard call returned with no throw, every note that
\* is linked under exactly one column of the board is in that column's
\* target state: the column's status and, for a quadrant column, its flags.
C2_PostSyncConsistent ==
    \A p \in Procs : \A g \in Docs :
        (/\ inv[p].pc = "done" /\ inv[p].err = {}
         /\ Cardinality(ColumnsOf(inv[p].updates, g)) = 1)
        => \A c \in ColumnsOf(inv[p].updates, g) : fm[g] = Target(fm[g], c)

\* C3: a step in which a syncBoard call writes frontmatter, creates a folder
\* or moves a note starts no syncBoard call.
C3_NoSelfTrigger ==
    [][(fm' # fm \/ loc' # loc \/ folders' # folders)
        => \A q \in Procs : inv'[q].pc = "read" => inv[q].pc = "read"]_vars

\* C4: a frontmatter write for a pair leaves the note in the target state of
\* the pair's column: backlog and the README's flags for the four quadrant
\* columns, the column name and the flags as they were for any other.
C4_ColumnPolicy ==
    [][\A g \in Docs :
        fm'[g] # fm[g]
        => \E p \in Procs :
              /\ inv[p].pc = "write" /\ CurrentDoc(inv[p]) = g
              /\ fm'[g] = Target(fm[g], Current(inv[p]).columnName)]_vars

\* C5: when a note's status is set to a non-archival value while the note
\* sits in the archive sub-location of an active location, the call that set
\* it goes on to move the note one level up, into the active location.
C5_Unarchive ==
    [][\A g \in Docs :
        (/\ fm'[g].status # fm[g].status
         /\ fm'[g].status \notin Archival
         /\ ArchiveLocation(loc[g]))
        => \E p \in Procs :
              /\ inv[p].pc = "write" /\ CurrentDoc(inv[p]) = g
              /\ inv'[p].pc = "move" /\ inv'[p].dest = Parent(loc[g])]_vars

\* C6: a note is moved only by a call updating it, and then only from an
\* active location into its archive sub-location on an archival status, or
\* from an archive sub-location up into its active location on a
\* non-archival status: a note outside both never moves, an archived note
\* does not move on an archival status, an active one not on any other.
C6_MovesConfined ==
    [][\A g \in Docs :
        loc'[g] # loc[g]
        => \E p \in Procs :
              /\ inv[p].pc = "move" /\ CurrentDoc(inv[p]) = g
              /\ \/ /\ status(Current(inv[p]).columnName) \in Archival
                    /\ ActiveLocation(loc[g])
                    /\ loc'[g] = loc[g] \o <<"archive">>
                 \/ /\ status(Current(inv[p]).columnName) \notin Archival
                    /\ ArchiveLocation(loc[g])
                    /\ loc'[g] = Parent(loc[g])]_vars

\* C6, its case: a note outside every tasks folder has been given the status
\* done by a call that returned without a throw, and sits where it was.
C6_Witness ==
    \E p \in Procs :
        /\ inv[p].pc = "done" /\ inv[p].err = {}
        /\ inv[p].updates = <<Pair("done", TaskA)>>
        /\ fm[TaskA].status = "done"
        /\ loc[TaskA] = <<"notes", "archive">>

\* C7: a call alone on the board whose one card links Task A under the
\* README's Do First heading finds Task A in tasks with no status and leaves
\* it there with backlog, urgent and important; a call alone on the board
\* with Task A under done finds it so and leaves it done, the flags as they
\* were, in tasks/archive.
C7_EndToEnd ==
    \A p \in Procs :
        (inv[p].pc = "done" /\ inv[p].solo /\ inv[p].err = {})
        => /\ (inv[p].updates = <<Pair(DocDoFirst, TaskA)>> /\ inv[p].found = "new")
              => /\ fm[TaskA].status = "backlog"
                 /\ fm[TaskA].urgent = TRUE_ /\ fm[TaskA].important = TRUE_
                 /\ loc[TaskA] = <<"tasks">>
           /\ (inv[p].updates = <<Pair("done", TaskA)>> /\ inv[p].found = "first")
              => /\ fm[TaskA].status = "done"
                 /\ fm[TaskA].urgent = TRUE_ /\ fm[TaskA].important = TRUE_
                 /\ loc[TaskA] = <<"tasks", "archive">>

\* C8, its first case: after a call in which a placement (createFolder or
\* renameFile) threw and no write did, the next call on the same pairs, with
\* no throw, leaves every note linked under one column with that column's
\* status and in the place its status asks for.
C8_SelfCorrects ==
    \A p \in Procs : \A g \in Docs :
        (/\ inv[p].pc = "done" /\ inv[p].rerun /\ inv[p].solo
         /\ inv[p].prevErr = {"place"} /\ inv[p].err = {}
         /\ Cardinality(ColumnsOf(inv[p].updates, g)) = 1)
        => /\ \A c \in ColumnsOf(inv[p].updates, g) : fm[g].status = status(c)
           /\ ActiveLocation(loc[g]) => fm[g].status \notin Archival
           /\ ArchiveLocation(loc[g]) => fm[g].status \in Archival

\* C11: a call of syncBoard that is inside its loop, where isUpdating was
\* set, returns in the end and leaves isUpdating false, whichever of its
\* awaits throw; and whenever no call is in flight isUpdating is false.
C11_SuppressionEnds ==
    /\ [](Quiet => ~isUpdating)
    /\ \A p \in Procs :
          [](InUpdate(inv[p]) => <>(inv[p].pc = "done" /\ ~isUpdating))

\* C11, its case: a call whose awaits threw, a write and a placement, has
\* returned, and isUpdating is false.
C11_Witness ==
    \E p \in Procs :
        /\ inv[p].pc = "done" /\ inv[p].err = {"write", "place"}
        /\ Quiet /\ ~isUpdating

\* What updateNote does for pair u when every await of it resolves, the
\* frontmatter being m, the places l and the folders fo: no write, or the
\* frontmatter it writes and the placement it asks for.
Handled(u, m, l, fo) ==
    IF ~CallsWrite(u, m) THEN [write |-> FALSE]
    ELSE LET h == getFirstLinkpathDest(u.linkPath)
         IN  [write |-> TRUE,
              meta |-> processFrontMatter(m[h], u.columnName),
              place |-> IF status(u.columnName) \in ARCHIVE_STATUSES
                        THEN archiveNote(l[h], fo) ELSE unarchiveNote(l[h])]

\* The vault as the pending await of call r would have left it by resolving,
\* with what follows it in the same updateNote resolving too.
Resolved(r) ==
    LET g == CurrentDoc(r)
        c == Current(r).columnName
        pl == IF r.pc # "write" THEN [pc |-> r.pc, dest |-> r.dest]
              ELSE IF status(c) \in ARCHIVE_STATUSES
                   THEN archiveNote(loc[g], folders) ELSE unarchiveNote(loc[g])
    IN  [fm |-> IF r.pc = "write"
                THEN [fm EXCEPT ![g] = processFrontMatter(fm[g], c)] ELSE fm,
         loc |-> IF pl.pc = "next" THEN loc ELSE [loc EXCEPT ![g] = pl.dest],
         folders |-> IF pl.pc = "next" THEN folders
                     ELSE folders \cup {pl.dest}]

\* This step, the pending await of call p threw: the call has left its pair
\* and the vault is as it was.
Threw(p) ==
    /\ InUpdate(inv[p])
    /\ inv'[p].pc # inv[p].pc \/ inv'[p].i # inv[p].i
    /\ inv'[p].pc \notin {"mkdir", "move"}
    /\ fm' = fm /\ loc' = loc /\ folders' = folders

\* The later pairs of call p that the throw left as they would have been.
Unharmed(p, later) ==
    LET r == inv[p]
        ok == Resolved(r)
    IN  /\ inv'[p].pc \in {"write", "done"}
        /\ inv'[p].i = NextWrite(r.updates, r.i + 1, fm)
        /\ isUpdating' = (inv'[p].pc # "done")
        /\ \A j \in later :
              Handled(r.updates[j], fm, loc, folders)
                  = Handled(r.updates[j], ok.fm, ok.loc, ok.folders)

\* This step, cachedRead resolved for call p, and every pair the call passed
\* over, a link that resolves to nothing among them, asked for no write: the
\* call parks at the first pair that does, or returns when none does.
PassedOver(p) ==
    (inv[p].pc = "read" /\ inv'[p].pc # "read")
    => LET r == inv'[p]
       IN  /\ \A k \in 1..Len(r.updates) :
                 (k < r.i \/ r.pc = "done") => ~CallsWrite(r.updates[k], fm)
           /\ r.pc # "done" => CallsWrite(r.updates[r.i], fm)

PlaceThrew(p) ==
    /\ inv[p].pc \in {"mkdir", "move"}
    /\ "place" \in inv'[p].err \ inv[p].err

\* C13: when createFolder or renameFile throws after the write of a pair,
\* nothing is rolled back: the note's frontmatter is as the write left it,
\* with the pair's status and flags, and the note is where it was.
C13_NoRollback ==
    [][\A p \in Procs :
        PlaceThrew(p) =>
            LET g == CurrentDoc(inv[p])
                c == Current(inv[p]).columnName
            IN  /\ fm' = fm /\ loc' = loc
                /\ fm'[g] = processFrontMatter(fm'[g], c)
                /\ fm'[g].status = status(c)]_vars

\* C13, its case: a new note in tasks was written done, createFolder or
\* renameFile threw, and the note is still in tasks with status done.
C13_Witness ==
    \E p \in Procs :
        /\ inv[p].pc = "done" /\ inv[p].err = {"place"}
        /\ inv[p].updates = <<Pair("done", TaskA)>>
        /\ inv[p].found = "new"
        /\ fm[TaskA].status = "done"
        /\ loc[TaskA] = <<"tasks">>

\* C14: when cachedRead resolves with a text that yields no pair, the call
\* returns at once: no frontmatter is written, no folder made, no note moved,
\* and isUpdating is as it was.
C14_EmptyParseNoOp ==
    [][\A p \in Procs :
        (/\ inv[p].pc = "read" /\ inv'[p].pc # "read"
         /\ parseBoardContent(content[inv[p].file]) = << >>)
        => /\ inv'[p].pc = "done" /\ inv'[p].updates = << >>
           /\ UNCHANGED <<isUpdating, fm, loc, folders, boardPaths, files>>]_vars

\* C14, its case: a call read a text whose only link stands before any
\* heading and returned, while another call is inside its loop and
\* isUpdating is true.
C14_Witness ==
    \E p \in Procs :
        /\ inv[p].pc = "done" /\ inv[p].updates = << >>
        /\ content[inv[p].file] = <<Card(TaskA)>>
        /\ isUpdating
        /\ \E q \in Procs \ {p} : InUpdate(inv[q])

\* C15: a pair whose link resolves is written if and only if the note's
\* status differs from the column's target status, or the column is a
\* quadrant column and urgent or important differs from its target: every
\* pair a call passes over has its note in the column's target state, and
\* the pair it parks at for the write has not.
C15_WriteDecision ==
    [][\A p \in Procs :
        (InFlight(inv[p]) /\ inv'[p].i # inv[p].i)
        => LET r == inv'[p]
           IN  \A k \in (inv[p].i + 1)..Len(r.updates) :
                  LET g == getFirstLinkpathDest(r.updates[k].linkPath)
                      c == r.updates[k].columnName
                  IN  g # NULL =>
                        /\ (k < r.i \/ r.pc = "done")
                              => fm'[g] = Target(fm'[g], c)
                        /\ (k = r.i /\ r.pc = "write")
                              => fm'[g] # Target(fm'[g], c)]_vars

\* The heading lines of a text before line k.
HeadingsBefore(lines, k) == {h \in 1..(k - 1) : lines[h].heading # NoMatch}

\* Pair u stands for line k of the text: the line is no heading and holds
\* the pair's link, a heading line stands before it, and the pair's column is
\* the text, trimmed, of the nearest one.
StandsFor(u, lines, k) ==
    /\ lines[k].heading = NoMatch
    /\ lines[k].link # NoMatch /\ u.linkPath = lines[k].link
    /\ HeadingsBefore(lines, k) # {}
    /\ \E h \in HeadingsBefore(lines, k) :
          /\ \A x \in HeadingsBefore(lines, k) : x <= h
          /\ u.columnName = trim(lines[h].heading)

\* C16: the pairs parseBoardContent gives for a text stand for lines of it,
\* one line each and in line order, so there are no more pairs than lines
\* with a link and none for a link before the first heading; and the parser
\* gives a list for every text.
C16_Parser ==
    \A p \in Procs :
        inv[p].pc \in {"write", "mkdir", "move", "done"}
        => LET lines == content[inv[p].file]
               ups == inv[p].updates
           IN  /\ ups = parseBoardContent(lines)
               /\ Len(ups) <= Cardinality({k \in 1..Len(lines) :
                                              lines[k].link # NoMatch})
               /\ \E at \in [1..Len(ups) -> 1..Len(lines)] :
                     /\ \A j, k \in 1..Len(ups) : j < k => at[j] < at[k]
                     /\ \A k \in 1..Len(ups) : StandsFor(ups[k], lines, at[k])

\* C16, its case: of a link before any heading, a heading that holds a
\* link, and a link after it, the parser gave the one pair of the last line.
C16_Witness ==
    \E p \in Procs :
        /\ inv[p].pc \in {"write", "done"}
        /\ content[inv[p].file] =
              <<Card(TaskA), [heading |-> "done", link |-> TaskA], Card(TaskA)>>
        /\ inv[p].updates = <<Pair("done", TaskA)>>

\* The last pair of `updates` that links document g.
LastPair(updates, g) ==
    updates[CHOOSE k \in 1..Len(updates) :
                /\ updates[k].linkPath = g
                /\ \A j \in (k + 1)..Len(updates) : updates[j].linkPath # g]

\* C17: right after a syncBoard call returned, alone and with no throw, a
\* note that is linked under several columns of the board is in the target
\* state of the last pair that links it.
C17_LastPairWins ==
    \A p \in Procs : \A g \in files :
        (/\ inv[p].pc = "done" /\ inv[p].solo /\ inv[p].err = {}
         /\ Cardinality({k \in 1..Len(inv[p].updates) :
                            inv[p].updates[k].linkPath = g}) >= 2)
        => fm[g] = Target(fm[g], LastPair(inv[p].updates, g).columnName)

\* The paths of the documents the vault holds whose frontmatter has a truthy
\* kanban-plugin, the frontmatter being m, the places l, the documents d.
BoardsOf(m, l, d) == {<<l[f], f>> : f \in {x \in d : m[x].kanban}}

\* C18: after the startup scan, and after the handler of a create event (a
\* folder was made) or a rename event (a note was moved), boardPaths holds
\* the paths of exactly the documents with a truthy kanban-plugin; the
\* handler of a delete event takes the deleted document's path out of
\* boardPaths and nothing else; and a syncBoard call starts only for a
\* document whose path is in boardPaths when its modify event arrives.
C18_BoardIndex ==
    /\ boardPaths = BoardsOf(fm, loc, files)
    /\ [][/\ (folders' # folders \/ loc' # loc)
                => boardPaths' = BoardsOf(fm', loc', files')
          /\ files' # files
                => \E f \in files \ files' :
                      /\ files' = files \ {f}
                      /\ boardPaths' = boardPaths \ {<<loc[f], f>>}
          /\ \A q \in Procs :
                (inv'[q].pc = "read" /\ inv[q].pc # "read")
                => <<loc[inv'[q].file], inv'[q].file>> \in boardPaths]_vars

\* C18, its case: kanban-plugin was taken from the board and given to Task
\* A, and a rename event later rebuilt the index: it holds Task A's path and
\* not the board's.
C18_Witness ==
    /\ files = Docs
    /\ boardPaths = {<<loc[TaskA], TaskA>>}
    /\ loc[TaskA] = <<"tasks", "archive">>

\* C19: a step taken while isUpdating is true starts no syncBoard call,
\* whatever modify event it carries: an edit of the board, or the write of a
\* call in flight.  (Events are not kept anywhere: a call starts only in the
\* step of the modify event it answers.)
C19_EventsDropped ==
    [][isUpdating
        => \A q \in Procs : inv'[q].pc = "read" => inv[q].pc = "read"]_vars

\* C19, its case: a call is inside its loop, it has been alone since it
\* started, and the board's text is no longer the one it read: the edit came
\* while isUpdating was true and started nothing.
C19_Witness ==
    \E p \in Procs :
        /\ InUpdate(inv[p]) /\ inv[p].solo /\ isUpdating
        /\ inv[p].updates = <<Pair("done", TaskA)>>
        /\ parseBoardContent(content[inv[p].file])
              = <<Pair("in-progress", TaskA)>>
        /\ \A q \in Procs \ {p} : ~InFlight(inv[q])

\* C20: a note is moved only by a call parked at renameFile for it, and a
\* folder is made only by a call parked at createFolder, the folder not
\* being there, the call going on to renameFile into it; and a call comes to
\* createFolder or renameFile only in the step in which processFrontMatter
\* resolved for the same pair, not when the write threw; and a call parks
\* at processFrontMatter only for a pair that needs the write.
C20_MoveAfterWrite ==
    [][/\ \A g \in Docs :
            loc'[g] # loc[g]
            => \E p \in Procs :
                  /\ inv[p].pc = "move" /\ CurrentDoc(inv[p]) = g
                  /\ loc'[g] = inv[p].dest
       /\ folders' # folders
            => \E p \in Procs :
                  /\ inv[p].pc = "mkdir" /\ inv[p].dest \notin folders
                  /\ folders' = folders \cup {inv[p].dest}
                  /\ inv'[p].pc = "move" /\ inv'[p].i = inv[p].i
                  /\ inv'[p].dest = inv[p].dest
                  /\ loc' = loc
       /\ \A p \in Procs :
            (inv'[p].pc \in {"mkdir", "move"} /\ inv'[p].pc # inv[p].pc)
            => \/ /\ inv[p].pc = "write" /\ inv'[p].i = inv[p].i
                  /\ fm'[CurrentDoc(inv[p])]
                        = processFrontMatter(fm[CurrentDoc(inv[p])],
                                             Current(inv[p]).columnName)
                  /\ inv'[p].err = inv[p].err
               \/ /\ inv[p].pc = "mkdir" /\ inv'[p].pc = "move"
                  /\ folders' # folders
       /\ \A p \in Procs :
            (inv'[p].pc = "write"
                /\ (inv[p].pc # "write" \/ inv'[p].i # inv[p].i))
            => CallsWrite(inv'[p].updates[inv'[p].i], fm')]_vars

\* C20, its case: a new note in tasks was written done, the archive folder
\* was made, and the call is parked at renameFile into it.
C20_Witness ==
    \E p \in Procs :
        /\ inv[p].pc = "move" /\ inv[p].found = "new" /\ inv[p].err = {}
        /\ inv[p].dest = <<"tasks", "archive">>
        /\ inv[p].dest \in folders
        /\ fm[TaskA].status = "done"
        /\ loc[TaskA] = <<"tasks">>

====
